---- MODULE Spec2Model ----
(***************************************************************************)
(* The order-line report pipeline of src/stream.py (the Streamlit page)    *)
(* and src/data.py (the batch script): load a workbook, split its rows by  *)
(* Item prefix, project Extended Price onto the twelve months of the       *)
(* current year, render the output workbook with overdue highlighting.     *)
(*                                                                         *)
(* One behaviour is one run of the script on an uploaded workbook, with    *)
(* the current date read once.  The library calls are modelled by what     *)
(* they do to the tables and to the written workbook: NaT compared with a  *)
(* date raises TypeError; leaving the with block of pd.ExcelWriter closes  *)
(* and saves the writer; an xlsxwriter workbook given no sheet is saved    *)
(* with the default sheet "Sheet1"; to_excel writes date cells with a date *)
(* format, and a row format set by set_row shows only in the cells of the  *)
(* row that have no format of their own.                                   *)
(*                                                                         *)
(* A cell value is a record [k, n, s, dt]: k is its kind ("nan", "nat",    *)
(* "inf", "num", "str", "ts" a datetime/Timestamp, "date" a date-only      *)
(* value), n its number, s its characters, dt its date parts.  Strings are *)
(* sequences of one-character strings so that a prefix can be tested.      *)
(***************************************************************************)
EXTENDS Integers, Sequences, FiniteSets, TLC

VARIABLES variant, file, current_date, pc, full_df, category_dfs,
          projections, excel_output, selected_category, messages, document

vars == <<variant, file, current_date, pc, full_df, category_dfs,
          projections, excel_output, selected_category, messages, document>>

\* Bounds of the input workbook: sheets per workbook, rows per workbook.
MaxSheets == 2
MaxRows == 2

-----------------------------------------------------------------------------
\* Cell values

Cell(k, n, s, dt) == [k |-> k, n |-> n, s |-> s, dt |-> dt]
NaN == Cell("nan", 0, <<>>, <<>>)
NaT == Cell("nat", 0, <<>>, <<>>)
Inf == Cell("inf", 0, <<>>, <<>>)
Num(n) == Cell("num", n, <<>>, <<>>)
Str(s) == Cell("str", 0, s, <<>>)
Timestamp(y, m, d, h) == Cell("ts", 0, <<>>, <<y, m, d, h>>)
Date(y, m, d) == Cell("date", 0, <<>>, <<y, m, d>>)

Range(f) == {f[i] : i \in DOMAIN f}

RECURSIVE SumSeq(_)
SumSeq(s) == IF s = <<>> THEN 0 ELSE Head(s) + SumSeq(Tail(s))

RECURSIVE Concat(_)
Concat(ss) == IF ss = <<>> THEN <<>> ELSE Head(ss) \o Concat(Tail(ss))

Digit(n) == CASE n = 0 -> "0" [] n = 1 -> "1" [] n = 2 -> "2" [] n = 3 -> "3"
              [] n = 4 -> "4" [] n = 5 -> "5" [] n = 6 -> "6" [] n = 7 -> "7"
              [] n = 8 -> "8" [] n = 9 -> "9"

\* str(n) of a natural number, as characters.
RECURSIVE IntToChars(_)
IntToChars(n) == IF n < 10 THEN <<Digit(n)>>
                 ELSE Append(IntToChars(n \div 10), Digit(n % 10))

-----------------------------------------------------------------------------
\* Loader

RequiredColumns == <<"Order", "Line", "Item", "Order Date", "Name",
                     "Item Description", "Customer Item", "Qty Ordered",
                     "U/M", "Unit Price", "Extended Price", "Dock Date">>

\* pd.to_datetime accepts a datetime or a missing value; any other text raises.
Parseable(cell) == cell.k \in {"ts", "date", "nan", "nat"}

\* pd.to_datetime(col).dt.date: the calendar date, time of day discarded;
\* a missing value becomes NaT.
to_date(cell) == IF cell.k \in {"ts", "date"}
                 THEN Date(cell.dt[1], cell.dt[2], cell.dt[3])
                 ELSE NaT

\* sheet_df[[...12 columns...]] raises KeyError when one is absent.
HasColumns(sheet) == Range(RequiredColumns) \subseteq Range(sheet.columns)

SheetLoads(sheet) ==
    /\ HasColumns(sheet)
    /\ \A i \in DOMAIN sheet.rows :
          /\ Parseable(sheet.rows[i]["Order Date"])
          /\ Parseable(sheet.rows[i]["Dock Date"])

\* One sheet after column selection and date normalisation.
CleanSheet(sheet) ==
    [i \in DOMAIN sheet.rows |->
        [col \in Range(RequiredColumns) |->
            IF col \in {"Order Date", "Dock Date"}
            THEN to_date(sheet.rows[i][col])
            ELSE sheet.rows[i][col]]]

\* The sheets are read in order; the first one that fails aborts the load.
LoadRaises(f) == \E i \in DOMAIN f : ~SheetLoads(f[i])

\* concat with the frames taken last sheet first.
concat_reversed(frames) ==
    LET all == Concat([i \in DOMAIN frames |-> frames[Len(frames) + 1 - i]])
    IN  [cols |-> RequiredColumns,
         rows |-> [i \in DOMAIN all |-> [idx |-> i - 1, c |-> all[i]]]]

\* pd.concat(cleaned_rows, ignore_index=True): rows in sheet order, each
\* sheet's rows in their order, index 0..n-1.
concat(frames) ==
    LET all == Concat(frames)
    IN  [cols |-> RequiredColumns,
         rows |-> [i \in DOMAIN all |-> [idx |-> i - 1, c |-> all[i]]]]

load_and_select_columns(f) == concat([i \in DOMAIN f |-> CleanSheet(f[i])])

-----------------------------------------------------------------------------
\* Classifier

\* The alternation of the pattern ^(999|NRE|ENG), in its order.
Tokens == <<"999", "NRE", "ENG">>

Chars(t) == CASE t = "999" -> <<"9", "9", "9">>
              [] t = "NRE" -> <<"N", "R", "E">>
              [] t = "ENG" -> <<"E", "N", "G">>

\* astype(str): the text form of a cell.
astype_str(cell) ==
    CASE cell.k = "str" -> cell.s
      [] cell.k = "num" -> IntToChars(cell.n)
      [] cell.k = "inf" -> <<"i", "n", "f">>
      [] cell.k = "nat" -> <<"N", "a", "T">>
      [] OTHER -> <<"n", "a", "n">>

\* Matches with the anchor lost: the token anywhere in the text.
Matches_anywhere(s, t) ==
    \E o \in 0..Len(s) :
        /\ Len(s) >= o + Len(Chars(t))
        /\ SubSeq(s, o + 1, o + Len(Chars(t))) = Chars(t)

\* The pattern is anchored at the start of the text.
Matches(s, t) ==
    /\ Len(s) >= Len(Chars(t))
    /\ SubSeq(s, 1, Len(Chars(t))) = Chars(t)

\* str.extract(r'^(999|NRE|ENG)'): the first alternative that matches, NaN
\* when none does.
extract(s) ==
    IF \E j \in DOMAIN Tokens : Matches(s, Tokens[j])
    THEN LET j == CHOOSE j \in DOMAIN Tokens :
                     /\ Matches(s, Tokens[j])
                     /\ \A h \in 1..(j - 1) : ~Matches(s, Tokens[h])
         IN  Str(Chars(Tokens[j]))
    ELSE NaN

\* df['Category'] = ...: the column is added to the table passed in.
AddCategory(df) ==
    [cols |-> Append(df.cols, "Category"),
     rows |-> [i \in DOMAIN df.rows |->
                 [idx |-> df.rows[i].idx,
                  c |-> [col \in (DOMAIN df.rows[i].c) \cup {"Category"} |->
                           IF col = "Category"
                           THEN extract(astype_str(df.rows[i].c["Item"]))
                           ELSE df.rows[i].c[col]]]]]

dropna(df) ==
    [cols |-> df.cols,
     rows |-> SelectSeq(df.rows, LAMBDA r : r.c["Category"].k # "nan")]

DropCategory(r) ==
    [idx |-> r.idx, c |-> [col \in (DOMAIN r.c) \ {"Category"} |-> r.c[col]]]

\* df_group.drop(columns='Category') of the group of key t.
Group(df, t) ==
    LET members == SelectSeq(df.rows, LAMBDA r : r.c["Category"].s = Chars(t))
    IN  [cols |-> SelectSeq(df.cols, LAMBDA col : col # "Category"),
         rows |-> [i \in DOMAIN members |-> DropCategory(members[i])]]

GroupKeys(df) ==
    {t \in Range(Tokens) : \E i \in DOMAIN df.rows :
                              df.rows[i].c["Category"].s = Chars(t)}

\* The dict returned by split_by_item_prefix: one table per key of groupby.
split_by_item_prefix(df) ==
    LET kept == dropna(AddCategory(df))
    IN  [t \in GroupKeys(kept) |-> Group(kept, t)]

\* groupby sorts its keys, and the dict keeps that order.
KeyOrder == <<"999", "ENG", "NRE">>
Keys(d) == SelectSeq(KeyOrder, LAMBDA t : t \in DOMAIN d)

-----------------------------------------------------------------------------
\* Projector

MonthAbbr == <<"Jan", "Feb", "Mar", "Apr", "May", "Jun",
               "Jul", "Aug", "Sep", "Oct", "Nov", "Dec">>

\* InMonth with the test of the year lost.
InMonth_anyyear(x, month_num, today) ==
    /\ x.k = "date"
    /\ x.dt[2] = month_num

\* lambda x: x.month == month_num and x.year == current_date.year
\* (the month and year of NaT are NaN and equal nothing).
InMonth(x, month_num, today) ==
    /\ x.k = "date"
    /\ x.dt[2] = month_num
    /\ x.dt[1] = today[1]

\* Series.sum() skips missing values.
PriceValue(cell) == IF cell.k = "num" THEN cell.n ELSE 0

MonthTotal(df, month_num, today) ==
    LET month_data == SelectSeq(df.rows,
                         LAMBDA r : InMonth(r.c["Dock Date"], month_num, today))
    IN  SumSeq([i \in DOMAIN month_data |->
                   PriceValue(month_data[i].c["Extended Price"])])

\* range(start, stop) as the sequence start, ..., stop - 1.
range(start, stop) == [i \in 1..(stop - start) |-> start + i - 1]

\* for month_num in range(1, 13)
RangeStart == 1
RangeStop == 13
\* MonthRange with the stop one short: range(1, 12).
MonthRange_short == range(RangeStart, RangeStop - 1)
MonthRange == range(RangeStart, RangeStop)

\* One row [total, month_year, month_num] is appended per month of the loop;
\* month_year is strftime('%b - %Y') of the first day of that month.
create_monthly_projection(df, today) ==
    [i \in DOMAIN MonthRange |->
        [Projected_Below |-> MonthTotal(df, MonthRange[i], today),
         Month |-> <<MonthAbbr[MonthRange[i]], " - ">> \o IntToChars(today[1]),
         Month_no |-> MonthRange[i]]]

-----------------------------------------------------------------------------
\* Renderer

\* A sheet is [name, header, cells, rowfmt]: cells[i][j] = [v, fmt] is the
\* cell of data row i (sheet row i, below the header row 0) and column j;
\* rowfmt[i] is the row format set_row gave sheet row i.
Written(v, fmt) == [v |-> v, fmt |-> fmt]

\* DataFrame.to_excel: a missing value is written as '', an infinite one as
\* 'inf', a date or datetime with the writer's date format, all without fill.
to_excel_cell(val) ==
    CASE val.k \in {"nan", "nat"} -> Written(Str(<<>>), "none")
      [] val.k = "inf" -> Written(Str(<<"i", "n", "f">>), "none")
      [] val.k = "date" -> Written(val, "date")
      [] val.k = "ts" -> Written(val, "datetime")
      [] OTHER -> Written(val, "none")

to_excel(df, sheet_name) ==
    [name |-> sheet_name,
     header |-> df.cols,
     cells |-> [i \in DOMAIN df.rows |->
                  [j \in DOMAIN df.cols |-> to_excel_cell(df.rows[i].c[df.cols[j]])]],
     rowfmt |-> [i \in DOMAIN df.rows |-> "none"]]

\* Calendar order of two date triples <<year, month, day>>.
DateLess(a, b) ==
    \/ a[1] < b[1]
    \/ a[1] = b[1] /\ a[2] < b[2]
    \/ a[1] = b[1] /\ a[2] = b[2] /\ a[3] < b[3]

\* dock_date < current_date raises TypeError when dock_date is NaT.
CompareRaises(dock_date) == dock_date.k # "date"

\* Overdue with <= for <.
Overdue_inclusive(dock_date, today) ==
    /\ dock_date.k = "date"
    /\ (DateLess(dock_date.dt, today) \/ dock_date.dt = today)

Overdue(dock_date, today) ==
    /\ dock_date.k = "date"
    /\ DateLess(dock_date.dt, today)

\* stream.py 65-75: the cell written over column j of an overdue row.
red_cell(val) ==
    CASE val.k \in {"nan", "nat", "inf"} -> Written(Str(<<>>), "red")
      [] val.k = "ts" -> Written(val, "red_date")
      [] val.k = "date" ->
            Written(Timestamp(val.dt[1], val.dt[2], val.dt[3], 0), "red_date")
      [] OTHER -> Written(val, "red")

\* The rows of df whose comparison is reached before one raises: all of them
\* when none raises.
Reached(df) ==
    {i \in DOMAIN df.rows :
        \A h \in 1..(i - 1) : ~CompareRaises(df.rows[h].c["Dock Date"])}

HighlightRaises(df) ==
    \E i \in DOMAIN df.rows : CompareRaises(df.rows[i].c["Dock Date"])

\* stream.py 59-75: the data sheet with every cell of an overdue row
\* rewritten with the red fill.
stream_data_sheet(category, df, today) ==
    LET sheet == to_excel(df, category \o "_Data")
    IN  [sheet EXCEPT !.cells =
            [i \in DOMAIN df.rows |->
                IF i \in Reached(df) /\ Overdue(df.rows[i].c["Dock Date"], today)
                THEN [j \in DOMAIN df.cols |-> red_cell(df.rows[i].c[df.cols[j]])]
                ELSE sheet.cells[i]]]

\* data.py 60-66: the data sheet with the red format set on overdue rows.
data_data_sheet(category, df, today) ==
    LET sheet == to_excel(df, category \o "_Data")
    IN  [sheet EXCEPT !.rowfmt =
            [i \in DOMAIN df.rows |->
                IF i \in Reached(df) /\ Overdue(df.rows[i].c["Dock Date"], today)
                THEN "red" ELSE "none"]]

ProjectionCells(proj) ==
    [i \in DOMAIN proj |->
        <<Written(Num(proj[i].Projected_Below), "none"),
          Written(Str(proj[i].Month), "none"),
          Written(Num(proj[i].Month_no), "none")>>]

projection_sheet(category, proj) ==
    [name |-> category \o "_Projection",
     header |-> <<"Projected Below", "Month", "Month #">>,
     cells |-> ProjectionCells(proj),
     rowfmt |-> [i \in DOMAIN proj |-> "none"]]

\* Character order, for the sorted keys of groupby and pivot.
Alphabet == <<" ", "(", ")", "-", "0", "1", "2", "3", "4", "5", "6", "7", "8",
              "9", "A", "B", "C", "D", "E", "F", "G", "H", "I", "J", "K", "L",
              "M", "N", "O", "P", "Q", "R", "S", "T", "U", "V", "W", "X", "Y",
              "Z", "a", "n">>
Ord(ch) == CHOOSE i \in DOMAIN Alphabet : Alphabet[i] = ch

RECURSIVE LexLess(_, _)
LexLess(a, b) ==
    IF b = <<>> THEN FALSE
    ELSE IF a = <<>> THEN TRUE
    ELSE IF Head(a) = Head(b) THEN LexLess(Tail(a), Tail(b))
    ELSE Ord(Head(a)) < Ord(Head(b))

\* The elements of a finite set in the strict total order Less, smallest first.
Sorted(S, Less(_, _)) ==
    CHOOSE seq \in [1..Cardinality(S) -> S] :
        \A i, j \in DOMAIN seq : i < j => Less(seq[i], seq[j])

SumPrice(rows) ==
    SumSeq([i \in DOMAIN rows |-> PriceValue(rows[i].c["Extended Price"])])

\* eng_df.groupby("Name")["Extended Price"].sum().sort_values(ascending=False)
\* .reset_index(): one row per Name (missing names are no group), largest
\* total first, equal totals in the order of the names.
company_totals(eng_df) ==
    LET names == {eng_df.rows[i].c["Name"].s :
                     i \in {h \in DOMAIN eng_df.rows :
                               eng_df.rows[h].c["Name"].k = "str"}}
        total(nm) == SumPrice(SelectSeq(eng_df.rows,
                        LAMBDA r : r.c["Name"].k = "str" /\ r.c["Name"].s = nm))
        before(a, b) == \/ total(a) > total(b)
                        \/ total(a) = total(b) /\ LexLess(a, b)
        order == Sorted(names, before)
    IN  [i \in DOMAIN order |-> <<order[i], total(order[i])>>]

\* eng_df['Order Date'] = pd.to_datetime(eng_df['Order Date']): the column of
\* the table passed in becomes a datetime column.
to_datetime(cell) ==
    IF cell.k = "date" THEN Timestamp(cell.dt[1], cell.dt[2], cell.dt[3], 0)
    ELSE cell

OrderDateToDatetime(df) ==
    [df EXCEPT !.rows =
        [i \in DOMAIN df.rows |->
            [df.rows[i] EXCEPT !.c["Order Date"] = to_datetime(@)]]]

\* stream.py 119-140: the monthly Extended Price per Item of the rows ordered
\* in the current year, one row per month start, one column per Item named
\* "<Name> (<Item>)", 0 where a month has no row of the Item.
pivot_df(eng_df, today) ==
    LET eng_2025 == SelectSeq(eng_df.rows,
                       LAMBDA r : r.c["Order Date"].k = "ts"
                                  /\ r.c["Order Date"].dt[1] = today[1])
        MonthStart(r) == <<r.c["Order Date"].dt[1], r.c["Order Date"].dt[2], 1>>
        months == Sorted({MonthStart(eng_2025[i]) : i \in DOMAIN eng_2025}, DateLess)
        items == Sorted({eng_2025[i].c["Item"].s : i \in DOMAIN eng_2025}, LexLess)
        first(it) == CHOOSE i \in DOMAIN eng_2025 :
                        /\ eng_2025[i].c["Item"].s = it
                        /\ \A h \in 1..(i - 1) : eng_2025[h].c["Item"].s # it
        label(it) == astype_str(eng_2025[first(it)].c["Name"])
                        \o <<" ", "(">> \o it \o <<")">>
        value(mo, it) == SumPrice(SelectSeq(eng_2025,
                            LAMBDA r : MonthStart(r) = mo /\ r.c["Item"].s = it))
    IN  [columns |-> [j \in DOMAIN items |-> label(items[j])],
         index |-> months,
         values |-> [i \in DOMAIN months |->
                       [j \in DOMAIN items |-> value(months[i], items[j])]]]

\* stream.py 84-151: the cells of the "ENG_Graphs" sheet: the company totals
\* below their header, two empty rows, then the pivot under its header row.
graphs_sheet(eng_df, today) ==
    LET totals == company_totals(eng_df)
        pivot == pivot_df(OrderDateToDatetime(eng_df), today)
        pie == [i \in DOMAIN totals |->
                   <<Written(Str(totals[i][1]), "none"),
                     Written(Num(totals[i][2]), "none")>>]
        head == <<Written(Str(<<"MonthStart">>), "none")>>
                  \o [j \in DOMAIN pivot.columns |->
                         Written(Str(pivot.columns[j]), "none")]
        line == [i \in DOMAIN pivot.index |->
                   <<Written(Timestamp(pivot.index[i][1], pivot.index[i][2],
                                       pivot.index[i][3], 0), "mmm yyyy")>>
                     \o [j \in DOMAIN pivot.columns |->
                            Written(Num(pivot.values[i][j]), "none")]]
        cells == pie \o <<<<>>, <<>>>> \o <<head>> \o line
    IN  [name |-> "ENG_Graphs",
         header |-> <<"Name", "Total Extended Price">>,
         cells |-> cells,
         rowfmt |-> [i \in DOMAIN cells |-> "none"]]

\* The categories the loop reaches: all of them when no comparison raises,
\* else those up to the first one whose comparison raises.
Before(original_dfs) ==
    LET keys == Keys(original_dfs)
        bad == {h \in DOMAIN keys : HighlightRaises(original_dfs[keys[h]])}
    IN  IF bad = {} THEN keys
        ELSE SubSeq(keys, 1, CHOOSE h \in bad : \A g \in bad : h <= g)

RenderRaises(original_dfs) ==
    \E t \in DOMAIN original_dfs : HighlightRaises(original_dfs[t])

\* The writer's close(): a workbook needs a sheet, and one that was given
\* none is saved with the default sheet "Sheet1".
close(sheets) ==
    IF sheets = <<>>
    THEN <<[name |-> "Sheet1", header |-> <<>>, cells |-> <<>>, rowfmt |-> <<>>]>>
    ELSE sheets

\* generate_excel with the test 'ENG' in original_dfs taken for true of any
\* non-empty dict.
generate_excel_graphs(original_dfs, projs, today) ==
    LET keys == Keys(original_dfs)
        per == Concat([i \in DOMAIN keys |->
                  <<stream_data_sheet(keys[i], original_dfs[keys[i]], today),
                    projection_sheet(keys[i], projs[keys[i]])>>])
    IN  close(IF keys # <<>>
              THEN Append(per, graphs_sheet(original_dfs[keys[1]], today))
              ELSE per)

\* stream.py 49-179, when no comparison raises.
generate_excel(original_dfs, projs, today) ==
    LET keys == Keys(original_dfs)
        per == Concat([i \in DOMAIN keys |->
                  <<stream_data_sheet(keys[i], original_dfs[keys[i]], today),
                    projection_sheet(keys[i], projs[keys[i]])>>])
    IN  close(IF "ENG" \in DOMAIN original_dfs
              THEN Append(per, graphs_sheet(original_dfs["ENG"], today))
              ELSE per)

\* stream.py 118: what generate_excel leaves in the dict it was passed.
AfterGenerate(original_dfs) ==
    [t \in DOMAIN original_dfs |->
        IF t = "ENG" THEN OrderDateToDatetime(original_dfs[t]) ELSE original_dfs[t]]

\* data.py 53-70: the sheets in the writer when the with block is left, by
\* its end or by the exception of a comparison: every category before the
\* one that raises has both sheets, that one has its data sheet only.
save_to_excel(original_dfs, projs, today) ==
    LET keys == Before(original_dfs)
    IN  close(Concat([i \in DOMAIN keys |->
            IF HighlightRaises(original_dfs[keys[i]])
            THEN <<data_data_sheet(keys[i], original_dfs[keys[i]], today)>>
            ELSE <<data_data_sheet(keys[i], original_dfs[keys[i]], today),
                   projection_sheet(keys[i], projs[keys[i]])>>]))

-----------------------------------------------------------------------------
\* The input workbooks and the captured date

RawRow(item, dock, price, odate, name, other) ==
    [col \in Range(RequiredColumns) |->
        CASE col = "Item" -> item
          [] col = "Dock Date" -> dock
          [] col = "Extended Price" -> price
          [] col = "Order Date" -> odate
          [] col = "Name" -> name
          [] OTHER -> other]

\* The Dock Date, Extended Price, Order Date, Name and remaining cells of a row.
Profile(dock, price, odate, name, other) ==
    [dock |-> dock, price |-> price, odate |-> odate, name |-> name, other |-> other]

\* Docked last year; docked earlier this year; docked on the current date.
Old == Profile(Timestamp(2024, 1, 1, 0), Num(500), Timestamp(2024, 1, 1, 0),
               Str(<<"A">>), Inf)
Due == Profile(Timestamp(2025, 3, 10, 13), Num(7), Timestamp(2025, 2, 1, 9),
               Str(<<"B">>), NaN)
Today == Profile(Timestamp(2025, 6, 1, 13), NaN, Timestamp(2025, 3, 5, 0),
                 Str(<<"A">>), Num(1))

\* A row with no Dock Date, and one whose Dock Date is no date.
NoDock == Profile(NaN, Num(2), Timestamp(2025, 2, 1, 0), Str(<<"B">>), Num(1))
BadDock == Profile(Str(<<"T", "B", "D">>), Num(2), NaN, NaN, Num(1))

ENG100 == Str(<<"E", "N", "G", "-", "1", "0", "0">>)
NRE1 == Str(<<"N", "R", "E", "1">>)
N999A == Str(<<"9", "9", "9", "A">>)
XYZ1 == Str(<<"X", "Y", "Z", "1">>)
XENG == Str(<<"X", "E", "N", "G">>)

RowOf(item, p) == RawRow(item, p.dock, p.price, p.odate, p.name, p.other)

\* The rows a sheet may hold.
Pool ==
    {RowOf(ENG100, p) : p \in {Old, Due, Today, NoDock, BadDock}}
      \cup {RowOf(NRE1, p) : p \in {Old, Due}}
      \cup {RowOf(N999A, Due), RowOf(Num(9990), Old),
            RowOf(XYZ1, Old), RowOf(XENG, Due)}

\* A header that lacks a required column.
ShortHeader == SelectSeq(RequiredColumns, LAMBDA col : col # "Extended Price")

\* A workbook is laid out by the row count of each of its sheets, -1 for a
\* sheet with the short header (such a sheet is given no rows).
Count(n) == IF n < 0 THEN 0 ELSE n

Layouts(k) ==
    {l \in UNION {[1..s -> -1..k] : s \in 1..MaxSheets} :
        SumSeq([i \in DOMAIN l |-> Count(l[i])]) = k}

Offset(l, i) == SumSeq([h \in 1..(i - 1) |-> Count(l[h])])

Workbook(rows, l) ==
    [i \in DOMAIN l |->
        IF l[i] < 0
        THEN [columns |-> ShortHeader, rows |-> <<>>]
        ELSE [columns |-> RequiredColumns,
              rows |-> SubSeq(rows, Offset(l, i) + 1, Offset(l, i) + l[i])]]

\* datetime.today().date(), read once when the script starts.
CurrentDates == {<<2025, 6, 1>>}

-----------------------------------------------------------------------------
\* The run

NoTable == [cols |-> <<>>, rows |-> <<>>]
NoDict == [t \in {} |-> NoTable]
NoDocument == [kind |-> "none", sheets |-> <<>>]

Init ==
    /\ variant \in {"stream", "data"}
    /\ \E k \in 0..MaxRows :
          \E rows \in [1..k -> Pool] :
             \E l \in Layouts(k) : file = Workbook(rows, l)
    /\ current_date \in CurrentDates
    /\ pc = "load"
    /\ full_df = NoTable
    /\ category_dfs = NoDict
    /\ projections = NoDict
    /\ excel_output = <<>>
    /\ selected_category = "None"
    /\ messages = <<>>
    /\ document = NoDocument

\* stream.py 322-323: the except clause shows one st.error and the script
\* ends; data.py has no handler, the interpreter prints the traceback.
Raise(shown) ==
    /\ pc' = "failed"
    /\ messages' = Append(shown, IF variant = "stream" THEN "error" ELSE "traceback")

\* stream.py 188, data.py 75
Load ==
    /\ pc = "load"
    /\ \/ /\ LoadRaises(file)
          /\ Raise(messages)
          /\ UNCHANGED full_df
       \/ /\ ~LoadRaises(file)
          /\ full_df' = load_and_select_columns(file)
          /\ pc' = "split"
          /\ UNCHANGED messages
    /\ UNCHANGED <<variant, file, current_date, category_dfs, projections,
                   excel_output, selected_category, document>>

\* stream.py 189, data.py 76: the Category column is assigned on full_df
\* itself before the function rebinds its local name.
Split ==
    /\ pc = "split"
    /\ category_dfs' = split_by_item_prefix(full_df)
    /\ full_df' = AddCategory(full_df)
    /\ pc' = "project"
    /\ UNCHANGED <<variant, file, current_date, projections, excel_output,
                   selected_category, messages, document>>

\* stream.py 190, data.py 77
Project ==
    /\ pc = "project"
    /\ projections' = [t \in DOMAIN category_dfs |->
                          create_monthly_projection(category_dfs[t], current_date)]
    /\ pc' = "render"
    /\ UNCHANGED <<variant, file, current_date, full_df, category_dfs,
                   excel_output, selected_category, messages, document>>

\* stream.py 191: the workbook is returned only when no comparison raised.
GenerateExcel ==
    /\ pc = "render"
    /\ variant = "stream"
    /\ \/ /\ RenderRaises(category_dfs)
          /\ Raise(messages)
          /\ UNCHANGED <<excel_output, category_dfs>>
       \/ /\ ~RenderRaises(category_dfs)
          /\ excel_output' = generate_excel(category_dfs, projections, current_date)
          /\ category_dfs' = AfterGenerate(category_dfs)
          /\ pc' = "display"
          /\ UNCHANGED messages
    /\ UNCHANGED <<variant, file, current_date, full_df, projections,
                   selected_category, document>>

\* data.py 78: the with block saves the writer's sheets to output_file when
\* it is left, also when an exception leaves it.
SaveToExcel ==
    /\ pc = "render"
    /\ variant = "data"
    /\ document' = [kind |-> "file",
                    sheets |-> save_to_excel(category_dfs, projections, current_date)]
    /\ \/ /\ RenderRaises(category_dfs)
          /\ Raise(messages)
       \/ /\ ~RenderRaises(category_dfs)
          /\ messages' = Append(messages, "generated")
          /\ pc' = "display"
    /\ UNCHANGED <<variant, file, current_date, full_df, category_dfs,
                   projections, excel_output, selected_category>>

\* stream.py 193-320: the preview of full_df, the selectbox (its first
\* option on the first run, the user's choice on a rerun, None when there is
\* no category, and projections[None] raises KeyError), the preview of the
\* chosen projection, the charts of ENG (which assign Order Date as line 118
\* does), then the success message and the download button.
Display ==
    /\ pc = "display"
    /\ variant = "stream"
    /\ \/ /\ DOMAIN projections = {}
          /\ Raise(Append(messages, "dataframe"))
          /\ UNCHANGED <<selected_category, category_dfs, document>>
       \/ /\ \E option \in DOMAIN projections :
                /\ selected_category' = option
                /\ category_dfs' = IF option = "ENG"
                                   THEN AfterGenerate(category_dfs)
                                   ELSE category_dfs
          /\ messages' = messages \o <<"dataframe", "dataframe", "success">>
          /\ document' = [kind |-> "download", sheets |-> excel_output]
          /\ pc' = "done"
    /\ UNCHANGED <<variant, file, current_date, full_df, projections, excel_output>>

\* data.py 81-82
Preview ==
    /\ pc = "display"
    /\ variant = "data"
    /\ messages' = Append(messages, "preview")
    /\ pc' = "done"
    /\ UNCHANGED <<variant, file, current_date, full_df, category_dfs,
                   projections, excel_output, selected_category, document>>

Next == Load \/ Split \/ Project \/ GenerateExcel \/ SaveToExcel \/ Display \/ Preview

Spec == Init /\ [][Next]_vars

-----------------------------------------------------------------------------
\* Vocabulary of the properties

\* The workbook the run rendered: the stream returned by generate_excel, or
\* the file save_to_excel wrote.
Rendered ==
    \/ variant = "stream" /\ excel_output # <<>>
    \/ variant = "data" /\ pc \in {"display", "done"}

RenderedSheets == IF variant = "stream" THEN excel_output ELSE document.sheets

SheetNames(sheets) == {sheets[i].name : i \in DOMAIN sheets}
SheetNamed(sheets, n) == sheets[CHOOSE i \in DOMAIN sheets : sheets[i].name = n]
ColumnOf(sheet, col) == CHOOSE j \in DOMAIN sheet.header : sheet.header[j] = col

\* The fill a cell shows: that of its own format when it has one, else that
\* of the format of its row.
Filled(sheet, i, j) ==
    IF sheet.cells[i][j].fmt = "none"
    THEN sheet.rowfmt[i] = "red"
    ELSE sheet.cells[i][j].fmt \in {"red", "red_date"}

\* A sheet row carries the highlight when set_row gave it the red format or
\* a cell of it was written with the red fill.
Highlighted(sheet, i) ==
    \/ sheet.rowfmt[i] = "red"
    \/ \E j \in DOMAIN sheet.cells[i] : sheet.cells[i][j].fmt \in {"red", "red_date"}

StartsWith(text, c) ==
    /\ Len(text) >= 3
    /\ <<text[1], text[2], text[3]>> = Chars(c)

Classified == "Category" \in Range(full_df.cols)
Projected == pc \in {"render", "display", "done"}

InTable(c, idx) ==
    /\ c \in DOMAIN category_dfs
    /\ \E i \in DOMAIN category_dfs[c].rows : category_dfs[c].rows[i].idx = idx

RawRows == Concat([i \in DOMAIN file |-> file[i].rows])

\* A category is present when a row of the input has an Item of its prefix.
Present(c) ==
    \E i \in DOMAIN RawRows : StartsWith(astype_str(RawRows[i]["Item"]), c)

IsDate(cell) == cell.k = "date"
SameDay(a, b) == a[1] = b[1] /\ a[2] = b[2] /\ a[3] = b[3]
Earlier(a, b) == a[1] * 10000 + a[2] * 100 + a[3] < b[1] * 10000 + b[2] * 100 + b[3]
Amount(r) == IF r.c["Extended Price"].k = "num" THEN r.c["Extended Price"].n ELSE 0
ErrorsShown == Len(SelectSeq(messages, LAMBDA m : m \in {"error", "traceback"}))

-----------------------------------------------------------------------------
\* C1: a row of the combined table is in the table of category c exactly when
\* the text of its Item starts with c; it is in at most one table, in none
\* when no token starts its Item, and rows of equal Item are placed alike.
C1_CategoryByItemPrefix ==
    Classified =>
        \A i \in DOMAIN full_df.rows :
            LET r == full_df.rows[i]
            IN  /\ \A c \in Range(Tokens) :
                      InTable(c, r.idx) <=> StartsWith(astype_str(r.c["Item"]), c)
                /\ Cardinality({c \in Range(Tokens) : InTable(c, r.idx)}) <= 1
                /\ \A j \in DOMAIN full_df.rows :
                      full_df.rows[j].c["Item"] = r.c["Item"]
                         => \A c \in Range(Tokens) :
                               InTable(c, full_df.rows[j].idx) <=> InTable(c, r.idx)

\* Classified rows: one in no table beside one in a table.
C1_Witness ==
    /\ pc = "project"
    /\ \E i, j \in DOMAIN full_df.rows :
          /\ \A c \in Range(Tokens) : ~InTable(c, full_df.rows[i].idx)
          /\ \E c \in Range(Tokens) : InTable(c, full_df.rows[j].idx)

\* C2: the twelve totals of a category add up to the Extended Price of its
\* rows docked in the current year, each such row counted in the bucket of
\* its month and rows of other years in none.
C2_ProjectionSums ==
    Projected =>
        /\ DOMAIN projections = DOMAIN category_dfs
        /\ \A t \in DOMAIN projections :
              LET rows == category_dfs[t].rows
                  thisYear == SelectSeq(rows, LAMBDA r :
                                 /\ IsDate(r.c["Dock Date"])
                                 /\ r.c["Dock Date"].dt[1] = current_date[1])
                  inMonth(m) == SelectSeq(thisYear, LAMBDA r : r.c["Dock Date"].dt[2] = m)
              IN  /\ SumSeq([i \in DOMAIN projections[t] |->
                               projections[t][i].Projected_Below])
                        = SumSeq([i \in DOMAIN thisYear |-> Amount(thisYear[i])])
                  /\ \A i \in DOMAIN projections[t] :
                        projections[t][i].Projected_Below
                           = SumSeq([h \in DOMAIN inMonth(projections[t][i].Month_no) |->
                                        Amount(inMonth(projections[t][i].Month_no)[h])])

\* A projected category with a priced row of another year and one of this year.
C2_Witness ==
    /\ pc = "render"
    /\ \E t \in DOMAIN category_dfs :
          \E i, j \in DOMAIN category_dfs[t].rows :
             /\ IsDate(category_dfs[t].rows[i].c["Dock Date"])
             /\ category_dfs[t].rows[i].c["Dock Date"].dt[1] # current_date[1]
             /\ Amount(category_dfs[t].rows[i]) > 0
             /\ IsDate(category_dfs[t].rows[j].c["Dock Date"])
             /\ category_dfs[t].rows[j].c["Dock Date"].dt[1] = current_date[1]
             /\ Amount(category_dfs[t].rows[j]) > 0

\* C3: every projection has exactly 12 rows, of month numbers 1..12 in that
\* order, and a month in which no row of the category is docked has total 0.
C3_TwelveMonths ==
    Projected =>
        \A t \in DOMAIN category_dfs :
            /\ t \in DOMAIN projections
            /\ Len(projections[t]) = 12
            /\ \A i \in 1..12 :
                  /\ projections[t][i].Month_no = i
                  /\ (\A h \in DOMAIN category_dfs[t].rows :
                         LET d == category_dfs[t].rows[h].c["Dock Date"]
                         IN  ~(IsDate(d) /\ d.dt[1] = current_date[1] /\ d.dt[2] = i))
                        => projections[t][i].Projected_Below = 0

\* A projected category none of whose rows is docked in the current year.
C3_Witness ==
    /\ pc = "render"
    /\ \E t \in DOMAIN category_dfs :
          /\ category_dfs[t].rows # <<>>
          /\ \A h \in DOMAIN category_dfs[t].rows :
                /\ IsDate(category_dfs[t].rows[h].c["Dock Date"])
                /\ category_dfs[t].rows[h].c["Dock Date"].dt[1] # current_date[1]

\* C4: in the rendered workbook, sheet row i of "<c>_Data" holds record i of
\* the table of c and carries the highlight exactly when the Dock Date of
\* that record is strictly earlier than the current date.
C4_OverdueHighlight ==
    Rendered =>
        \A t \in DOMAIN category_dfs :
            /\ (t \o "_Data") \in SheetNames(RenderedSheets)
            /\ LET sheet == SheetNamed(RenderedSheets, t \o "_Data")
                   rows == category_dfs[t].rows
               IN  /\ Len(sheet.cells) = Len(rows)
                   /\ \A i \in DOMAIN rows :
                         /\ sheet.cells[i][ColumnOf(sheet, "Item")].v = rows[i].c["Item"]
                         /\ SameDay(sheet.cells[i][ColumnOf(sheet, "Dock Date")].v.dt,
                                    rows[i].c["Dock Date"].dt)
                         /\ Highlighted(sheet, i)
                               <=> Earlier(rows[i].c["Dock Date"].dt, current_date)

\* A rendered data sheet with a row docked before the current date and a row
\* docked on it.
C4_Witness ==
    /\ Rendered
    /\ \E t \in DOMAIN category_dfs :
          \E i, j \in DOMAIN category_dfs[t].rows :
             /\ Earlier(category_dfs[t].rows[i].c["Dock Date"].dt, current_date)
             /\ Highlighted(SheetNamed(RenderedSheets, t \o "_Data"), i)
             /\ category_dfs[t].rows[j].c["Dock Date"].dt = current_date
             /\ ~Highlighted(SheetNamed(RenderedSheets, t \o "_Data"), j)

\* C5: every cell of an overdue row of a rendered data sheet shows the fill
\* and keeps its value: a missing or infinite value is an empty cell, a date
\* is a date-formatted cell of the same day, any other value is unchanged.
C5_EveryCellHighlighted ==
    Rendered =>
        \A t \in DOMAIN category_dfs :
            LET sheet == SheetNamed(RenderedSheets, t \o "_Data")
                rows == category_dfs[t].rows
            IN  \A i \in DOMAIN rows :
                   Earlier(rows[i].c["Dock Date"].dt, current_date) =>
                      \A j \in DOMAIN sheet.header :
                         LET val == rows[i].c[sheet.header[j]]
                             cell == sheet.cells[i][j]
                         IN  /\ Filled(sheet, i, j)
                             /\ CASE val.k \in {"nan", "nat", "inf"} -> cell.v = Str(<<>>)
                                  [] val.k \in {"date", "ts"} ->
                                        /\ cell.v.k \in {"date", "ts"}
                                        /\ SameDay(cell.v.dt, val.dt)
                                        /\ cell.fmt \in {"date", "datetime", "red_date"}
                                  [] OTHER -> cell.v = val

\* C6: a run that fails has shown exactly one error message and has neither
\* offered nor written an output document.
C6_AllOrNothing ==
    pc = "failed" => (ErrorsShown = 1 /\ document.kind = "none")

\* C7 as stated: the sheets of the rendered workbook are exactly the data and
\* projection sheets of the categories present, with "ENG_Graphs" in the
\* chart variant when ENG is present.
CategorySheets ==
    UNION {{c \o "_Data", c \o "_Projection"} : c \in {t \in Range(Tokens) : Present(t)}}
       \cup (IF variant = "stream" /\ Present("ENG") THEN {"ENG_Graphs"} ELSE {})

C7_SheetSet ==
    Rendered => SheetNames(RenderedSheets) = CategorySheets

\* C7 as amended: the same, except that a workbook rendered for an input with
\* no category present holds the one sheet "Sheet1".
C7_SheetSetOrDefault ==
    Rendered =>
        /\ SheetNames(RenderedSheets)
              = IF \E c \in Range(Tokens) : Present(c) THEN CategorySheets ELSE {"Sheet1"}
        /\ Cardinality(SheetNames(RenderedSheets)) = Len(RenderedSheets)

\* A rendered workbook of an input where ENG is present and NRE is not.
C7_Witness ==
    /\ Rendered
    /\ Present("ENG")
    /\ ~Present("NRE")
    /\ "ENG_Data" \in SheetNames(RenderedSheets)

\* C8: a run whose input loads and has no row of any category does not fail
\* and shows no error message.
C8_NoMatchIsNoError ==
    (~LoadRaises(file) /\ \A c \in Range(Tokens) : ~Present(c))
        => (pc # "failed" /\ ErrorsShown = 0)

\* C9: the combined table holds the rows of the sheets in sheet order, each
\* sheet's rows in their order, none dropped, merged or moved; the rows of a
\* category table are rows of the combined table in their relative order.
SameRecord(raw, clean) ==
    \A col \in Range(RequiredColumns) :
        IF col \in {"Order Date", "Dock Date"}
        THEN IF raw[col].k \in {"ts", "date"}
             THEN clean[col].k \in {"ts", "date"} /\ SameDay(raw[col].dt, clean[col].dt)
             ELSE clean[col].k = "nat"
        ELSE clean[col] = raw[col]

C9_RowOrderPreserved ==
    (full_df # NoTable \/ pc \in {"split", "project"}) =>
        /\ Len(full_df.rows) = Len(RawRows)
        /\ \A i \in DOMAIN full_df.rows :
              /\ full_df.rows[i].idx = i - 1
              /\ SameRecord(RawRows[i], full_df.rows[i].c)
        /\ \A t \in DOMAIN category_dfs :
              LET rows == category_dfs[t].rows
              IN  /\ \A a, b \in DOMAIN rows : a < b => rows[a].idx < rows[b].idx
                  /\ \A a \in DOMAIN rows :
                        SameRecord(RawRows[rows[a].idx + 1], rows[a].c)

\* Two different rows of one category, loaded from two sheets and classified.
C9_Witness ==
    /\ pc = "project"
    /\ Len(file) = 2
    /\ Len(file[1].rows) = 1
    /\ Len(file[2].rows) = 1
    /\ file[1].rows[1] # file[2].rows[1]
    /\ \E t \in DOMAIN category_dfs : Len(category_dfs[t].rows) = 2

\* C10: the classifier leaves the combined table as the loader returned it,
\* and the renderer leaves the category tables and projections as the
\* classifier and the projector returned them.
C10_StagesPassDataForward ==
    ~LoadRaises(file) =>
        /\ pc \in {"project", "render", "display", "done"}
              => full_df = load_and_select_columns(file)
        /\ Rendered =>
              /\ category_dfs = split_by_item_prefix(load_and_select_columns(file))
              /\ projections =
                    [t \in DOMAIN category_dfs |->
                        create_monthly_projection(
                            split_by_item_prefix(load_and_select_columns(file))[t],
                            current_date)]

====
